---------------------------- MODULE Spec2Model ----------------------------
(***************************************************************************)
(* example_slope.py: the CoastSat.slope driver script.  The script is      *)
(* straight-line code: load, filter, intersect, clip, tide, estimate.      *)
(* Each stage of the script is one action; pc names the stage that runs    *)
(* next.  Dates are integers yyyymm (an order embedding of the datetimes   *)
(* the script compares); slopes are integers in thousandths.               *)
(***************************************************************************)
EXTENDS Integers, Sequences, FiniteSets

VARIABLES pc, error, output, transects, cross_distance,
          settings_slope, dates_sat, tide_sat, key_idx, dates, tide,
          composite, slope_est, printed

vars == <<pc, error, output, transects, cross_distance,
          settings_slope, dates_sat, tide_sat, key_idx, dates, tide,
          composite, slope_est, printed>>

\* ------------------------------------------------------------ bounds
MaxEpochs == 3
MaxTransects == 2
MaxMissing == 1
MaxOutliers == 1

\* --------------------------------------------------------- constants
\* slope_min, slope_max, delta_slope of settings_slope, in thousandths
slope_min == 35
slope_max == 200
delta_slope == 5
\* settings_slope['date_range'] after line 93: 1 May 1999, 1 Jan 2020
date_range == <<199905, 202001>>
\* the accuracy passed to remove_inaccurate_georef
georef_accuracy == 10
\* numpy's nan, as a value no cross-shore distance takes
NaN == -1000

\* ------------------------------------------------ the input universe
\* a date on each bound of date_range and two dates inside
Dates == {date_range[1], date_range[1] + 1, date_range[1] + 2, date_range[2]}
Satnames == {"L8", "S2"}
GeoAccuracies == {georef_accuracy, georef_accuracy + 2}

Epochs == [dates : Dates, satname : Satnames, geoaccuracy : GeoAccuracies]

\* The lists of the pickled dictionary: one entry per epoch in every field.
Dataset(eps) ==
    [dates       |-> [i \in 1..Len(eps) |-> eps[i].dates],
     satname     |-> [i \in 1..Len(eps) |-> eps[i].satname],
     geoaccuracy |-> [i \in 1..Len(eps) |-> eps[i].geoaccuracy],
     shorelines  |-> [i \in 1..Len(eps) |-> i]]

Unbound == [dates |-> <<>>, satname |-> <<>>, geoaccuracy |-> <<>>,
            shorelines |-> <<>>]

\* ------------------------------------------------------ numpy idioms
RECURSIVE WhereFrom(_, _)
WhereFrom(mask, i) ==
    IF i > Len(mask) THEN <<>>
    ELSE (IF mask[i] THEN <<i>> ELSE <<>>) \o WhereFrom(mask, i + 1)

\* np.where(mask)[0]
Where(mask) == WhereFrom(mask, 1)

\* ~mask
Invert(mask) == [i \in 1..Len(mask) |-> ~mask[i]]

\* [lst[_] for _ in idx]
Take(lst, idx) == [j \in 1..Len(idx) |-> lst[idx[j]]]

\* arr[mask]
Masked(arr, mask) == Take(arr, Where(mask))

\* ------------------------------------------------------------ filter
\* Variant: the test inverted.
idx_S2_ne(satname) == [i \in 1..Len(satname) |-> satname[i] # "S2"]
\* idx_S2 = np.array([_ == 'S2' for _ in output['satname']])
idx_S2(satname) == [i \in 1..Len(satname) |-> satname[i] = "S2"]

\* Variant: the S2 entries are left in.
RemoveS2_skip ==
    /\ pc = "remove_S2" /\ error = "none"
    /\ pc' = "remove_duplicates"
    /\ UNCHANGED <<error, output, transects, cross_distance,
                   settings_slope, dates_sat, tide_sat, key_idx, dates,
                   tide, composite, slope_est, printed>>

RemoveS2 ==
    /\ pc = "remove_S2" /\ error = "none"
    /\ output' =
         IF \E i \in 1..Len(output.satname) : output.satname[i] = "S2"
         THEN [key \in DOMAIN output |->
                 Take(output[key], Where(Invert(idx_S2(output.satname))))]
         ELSE output
    /\ pc' = "remove_duplicates"
    /\ UNCHANGED <<error, transects, cross_distance,
                   settings_slope, dates_sat, tide_sat, key_idx, dates,
                   tide, composite, slope_est, printed>>

\* SDS_slope.remove_duplicates: the first of several observations of one
\* date by one satellite is kept.
remove_duplicates(out) ==
    LET keep == [i \in 1..Len(out.dates) |->
                   ~ \E j \in 1..(i - 1) : /\ out.dates[j] = out.dates[i]
                                           /\ out.satname[j] = out.satname[i]]
    IN  [key \in DOMAIN out |-> Masked(out[key], keep)]

\* SDS_slope.remove_inaccurate_georef: epochs whose error exceeds accuracy go.
remove_inaccurate_georef(out, accuracy) ==
    LET keep == [i \in 1..Len(out.geoaccuracy) |->
                   ~ (out.geoaccuracy[i] > accuracy)]
    IN  [key \in DOMAIN out |-> Masked(out[key], keep)]

Load ==
    /\ pc = "load" /\ error = "none"
    /\ \E n \in 0..MaxEpochs : \E eps \in [1..n -> Epochs] :
         output' = Dataset(eps)
    /\ \E n \in 0..MaxTransects : transects' = [k \in 1..n |-> k]
    /\ pc' = "remove_S2"
    /\ UNCHANGED <<error, cross_distance, settings_slope,
                   dates_sat, tide_sat, key_idx, dates, tide, composite,
                   slope_est, printed>>

RemoveDuplicates ==
    /\ pc = "remove_duplicates" /\ error = "none"
    /\ output' = remove_duplicates(output)
    /\ pc' = "remove_inaccurate_georef"
    /\ UNCHANGED <<error, transects, cross_distance,
                   settings_slope, dates_sat, tide_sat, key_idx, dates,
                   tide, composite, slope_est, printed>>

RemoveInaccurateGeoref ==
    /\ pc = "remove_inaccurate_georef" /\ error = "none"
    /\ output' = remove_inaccurate_georef(output, georef_accuracy)
    /\ pc' = "compute_intersection"
    /\ UNCHANGED <<error, transects, cross_distance,
                   settings_slope, dates_sat, tide_sat, key_idx, dates,
                   tide, composite, slope_est, printed>>

\* ------------------------------------------------------ intersection
\* The cross-shore distance of shoreline sl along transect k, when the
\* shoreline meets the transect.
Intersect(sl, k) == 10 * sl + k

\* SDS_slope.compute_intersection: for every transect one value per epoch of
\* output, nan where the shoreline does not meet the transect (at up to
\* MaxMissing places).
ComputeIntersection ==
    /\ pc = "compute_intersection" /\ error = "none"
    /\ \E miss \in SUBSET ((DOMAIN transects) \X (1..Len(output.shorelines))) :
         /\ Cardinality(miss) <= MaxMissing
         /\ cross_distance' =
              [k \in DOMAIN transects |->
                 [i \in 1..Len(output.shorelines) |->
                    IF <<k, i>> \in miss THEN NaN
                    ELSE Intersect(output.shorelines[i], k)]]
    /\ pc' = "reject_outliers"
    /\ UNCHANGED <<error, output, transects, settings_slope,
                   dates_sat, tide_sat, key_idx, dates, tide, composite,
                   slope_est, printed>>

\* The places of a cross-distance mapping that hold a value.
Valid(cd) ==
    UNION {{<<k, i>> : i \in {j \in 1..Len(cd[k]) : cd[k][j] # NaN}} :
             k \in DOMAIN cd}

\* SDS_slope.reject_outliers: up to MaxOutliers values become nan, the rest
\* stay.
RejectOutliers ==
    /\ pc = "reject_outliers" /\ error = "none"
    /\ \E out \in SUBSET Valid(cross_distance) :
         /\ Cardinality(out) <= MaxOutliers
         /\ cross_distance' =
              [k \in DOMAIN cross_distance |->
                 [i \in 1..Len(cross_distance[k]) |->
                    IF <<k, i>> \in out THEN NaN ELSE cross_distance[k][i]]]
    /\ pc' = "clip_dates"
    /\ UNCHANGED <<error, output, transects, settings_slope,
                   dates_sat, tide_sat, key_idx, dates, tide, composite,
                   slope_est, printed>>

\* ------------------------------------------------------------- clip
\* SDS_slope.range_slopes: the candidates from min_slope to max_slope.
range_slopes(min_slope, max_slope, delta) ==
    [i \in 1..((max_slope - min_slope) \div delta + 1) |->
       min_slope + (i - 1) * delta]

\* Variant: one candidate past slope_max.
beach_slopes_wide == range_slopes(slope_min, slope_max + delta_slope, delta_slope)
\* beach_slopes = SDS_slope.range_slopes(settings_slope['slope_min'], ...)
beach_slopes == range_slopes(slope_min, slope_max, delta_slope)

\* Variant: the lower bound compared with >=.
idx_dates_incl(ds) ==
    [i \in 1..Len(ds) |-> ds[i] >= date_range[1] /\ ds[i] < date_range[2]]
\* idx_dates = [np.logical_and(_>date_range[0], _<date_range[1]) for _ in ...]
idx_dates(ds) ==
    [i \in 1..Len(ds) |-> ds[i] > date_range[1] /\ ds[i] < date_range[2]]

\* Variant: dates_sat is clipped, the cross-distance series are not.
ClipDates_dates_only ==
    /\ pc = "clip_dates" /\ error = "none"
    /\ settings_slope' =
         [k \in {"slope_min", "slope_max", "delta_slope", "date_range"} |->
            CASE k = "slope_min" -> slope_min
              [] k = "slope_max" -> slope_max
              [] k = "delta_slope" -> delta_slope
              [] k = "date_range" -> date_range]
    /\ dates_sat' = Take(output.dates, Where(idx_dates(output.dates)))
    /\ pc' = "compute_tide"
    /\ UNCHANGED <<error, output, transects, cross_distance,
                   tide_sat, key_idx, dates, tide, composite, slope_est,
                   printed>>

ClipDates ==
    /\ pc = "clip_dates" /\ error = "none"
    /\ settings_slope' =
         [k \in {"slope_min", "slope_max", "delta_slope", "date_range"} |->
            CASE k = "slope_min" -> slope_min
              [] k = "slope_max" -> slope_max
              [] k = "delta_slope" -> delta_slope
              [] k = "date_range" -> date_range]
    /\ dates_sat' = Take(output.dates, Where(idx_dates(output.dates)))
    /\ cross_distance' =
         [key \in DOMAIN cross_distance |->
            Masked(cross_distance[key], idx_dates(output.dates))]
    /\ pc' = "compute_tide"
    /\ UNCHANGED <<error, output, transects, tide_sat, key_idx,
                   dates, tide, composite, slope_est, printed>>

\* ------------------------------------------------------------- tide
\* The tide model's level at date d.
Tide(d) == (d % 7) - 3

\* SDS_slope.compute_tide_dates: the tide level at each date of dates_sat.
ComputeTide ==
    /\ pc = "compute_tide" /\ error = "none"
    /\ tide_sat' = [i \in 1..Len(dates_sat) |-> Tide(dates_sat[i])]
    /\ pc' = "find_tide_peak"
    /\ UNCHANGED <<error, output, transects, cross_distance,
                   settings_slope, dates_sat, key_idx, dates, tide, composite,
                   slope_est, printed>>

\* SDS_slope.find_tide_peak: the frequency of the strongest tidal peak, here
\* the place of the highest tide level of the sub-sampled series.
find_tide_peak(td) ==
    IF td = <<>> THEN 0
    ELSE CHOOSE i \in 1..Len(td) : \A j \in 1..Len(td) :
           td[j] < td[i] \/ (td[j] = td[i] /\ i <= j)

\* bins = np.arange(np.min(delta_t)/seconds_in_day, ...): np.min raises on
\* the empty delta_t = np.diff(t) that fewer than two dates give.
has_timesteps == Len(dates_sat) >= 2

\* Variant: the loop is reached without freqs_max.
FindTidePeak_unset ==
    /\ pc = "find_tide_peak" /\ error = "none"
    /\ has_timesteps
    /\ pc' = "estimate"
    /\ UNCHANGED <<error, output, transects, cross_distance,
                   settings_slope, dates_sat, tide_sat, key_idx, dates, tide,
                   composite, slope_est, printed>>

\* The time-step histogram, then
\* settings_slope['freqs_max'] = SDS_slope.find_tide_peak(...)
FindTidePeak ==
    /\ pc = "find_tide_peak" /\ error = "none"
    /\ has_timesteps
    /\ settings_slope' =
         [k \in DOMAIN settings_slope \cup {"freqs_max"} |->
            IF k = "freqs_max" THEN find_tide_peak(tide_sat)
            ELSE settings_slope[k]]
    /\ pc' = "estimate"
    /\ UNCHANGED <<error, output, transects, cross_distance,
                   dates_sat, tide_sat, key_idx, dates, tide, composite,
                   slope_est, printed>>

\* The time-step histogram of fewer than two dates: np.min raises.
TimestepRaise ==
    /\ pc = "find_tide_peak" /\ error = "none"
    /\ ~has_timesteps
    /\ error' = "raised"
    /\ UNCHANGED <<pc, output, transects, cross_distance, settings_slope,
                   dates_sat, tide_sat, key_idx, dates, tide, composite,
                   slope_est, printed>>

\* --------------------------------------------------------- estimate
\* SDS_slope.tide_correct: the series corrected with each candidate slope.
tide_correct(comp, td, slopes) ==
    [i \in 1..Len(slopes) |->
       [slope |-> slopes[i],
        ts    |-> [j \in 1..Len(comp) |-> comp[j] + (1000 * td[j]) \div slopes[i]]]]

\* The candidates SDS_slope.integrate_power_spectrum is followed to: both
\* ends of the range.
EstimateIdx(n) == {1, n}

\* Variant: no value is taken for nan.
isnan_none(arr) == [i \in 1..Len(arr) |-> FALSE]
\* idx_nan = np.isnan(cross_distance[key])
isnan(arr) == [i \in 1..Len(arr) |-> arr[i] = NaN]

\* Variant: the key of the iteration before, repeated.
next_key_stale == IF key_idx = 0 THEN 1 ELSE key_idx
\* for key in cross_distance.keys(): the key of this iteration
next_key == key_idx + 1

\* Variant: the loop goes on after an exception.
in_loop_caught == pc = "estimate"
\* The loop runs while the script does: nothing catches an exception.
in_loop == pc = "estimate" /\ error = "none"

\* The loop body for the next key of cross_distance.keys().
EstimateSlope ==
    /\ in_loop
    /\ key_idx < Cardinality(DOMAIN cross_distance)
    /\ LET key == next_key
           idx_nan == isnan(cross_distance[key])
           tsall == tide_correct(composite', tide', beach_slopes)
       IN  /\ dates' = Take(dates_sat, Where(Invert(idx_nan)))
           /\ tide' = Masked(tide_sat, Invert(idx_nan))
           /\ composite' = Masked(cross_distance[key], Invert(idx_nan))
           /\ \E i \in EstimateIdx(Len(tsall)) :
                /\ slope_est' =
                     [k \in DOMAIN slope_est \cup {key} |->
                        IF k = key THEN tsall[i].slope ELSE slope_est[k]]
                /\ printed' = Append(printed, <<key, tsall[i].slope>>)
    /\ key_idx' = key_idx + 1
    /\ UNCHANGED <<pc, error, output, transects, cross_distance,
                   settings_slope, dates_sat, tide_sat>>

\* The loop is over: the script ends.
Finish ==
    /\ pc = "estimate" /\ error = "none"
    /\ key_idx = Cardinality(DOMAIN cross_distance)
    /\ pc' = "done"
    /\ UNCHANGED <<error, output, transects, cross_distance,
                   settings_slope, dates_sat, tide_sat, key_idx, dates, tide,
                   composite, slope_est, printed>>

\* The stages that read a file or call SDS_slope or pyfes: any may raise.
Fallible == {"load", "remove_duplicates", "remove_inaccurate_georef",
             "compute_intersection", "reject_outliers", "compute_tide",
             "find_tide_peak", "estimate"}

\* No try/except anywhere: an exception ends the script where it is raised.
Raise ==
    /\ pc \in Fallible /\ error = "none"
    /\ pc = "estimate" => key_idx < Cardinality(DOMAIN cross_distance)
    /\ error' = "raised"
    /\ UNCHANGED <<pc, output, transects, cross_distance,
                   settings_slope, dates_sat, tide_sat, key_idx, dates, tide,
                   composite, slope_est, printed>>

Init ==
    /\ pc = "load"
    /\ error = "none"
    /\ output = Unbound
    /\ transects = <<>>
    /\ cross_distance = <<>>
    /\ settings_slope = [k \in {} |-> 0]
    /\ dates_sat = <<>>
    /\ tide_sat = <<>>
    /\ key_idx = 0
    /\ dates = <<>>
    /\ tide = <<>>
    /\ composite = <<>>
    /\ slope_est = <<>>
    /\ printed = <<>>

Next ==
    \/ Load
    \/ RemoveS2
    \/ RemoveDuplicates
    \/ RemoveInaccurateGeoref
    \/ ComputeIntersection
    \/ RejectOutliers
    \/ ClipDates
    \/ ComputeTide
    \/ FindTidePeak
    \/ TimestepRaise
    \/ EstimateSlope
    \/ Finish
    \/ Raise

Spec == Init /\ [][Next]_vars

\* ============================================================ claims
\* sub holds exactly the entries of full at the indices of S, in the order
\* of full: the n-th smallest index of S is found at place n of sub.
Selected(sub, full, S) ==
    /\ Len(sub) = Cardinality(S)
    /\ \A i \in S : sub[Cardinality({j \in S : j <= i})] = full[i]

AfterFilter == {"compute_intersection", "reject_outliers", "clip_dates",
                "compute_tide", "find_tide_peak", "estimate", "done"}
AfterClip == {"compute_tide", "find_tide_peak", "estimate", "done"}
AfterTide == {"find_tide_peak", "estimate", "done"}

\* C1: the S2-removal step leaves in every field exactly the entries at the
\* indices whose satname is not 'S2', in their order, and leaves a dataset
\* without any 'S2' entry as it was.
C1_S2RemovalKeepsOthers ==
    [][(pc = "remove_S2" /\ pc' = "remove_duplicates") =>
         LET keep == {i \in 1..Len(output.satname) : output.satname[i] # "S2"}
         IN  /\ DOMAIN output' = DOMAIN output
             /\ \A key \in DOMAIN output :
                  Selected(output'[key], output[key], keep)
             /\ (keep = 1..Len(output.satname) => output' = output)]_vars

\* An 'S2' epoch between two others was removed: epochs 1 and 3 remain.
C1_Witness ==
    /\ pc = "remove_duplicates"
    /\ output.shorelines = <<1, 3>>

\* C2 as stated: an epoch is kept exactly when its date is at or after the
\* lower bound and before the upper bound.
C2_LowerInclusive ==
    pc \in AfterClip =>
      LET keep == {i \in 1..Len(output.dates) :
                     /\ output.dates[i] >= date_range[1]
                     /\ output.dates[i] < date_range[2]}
      IN  Selected(dates_sat, output.dates, keep)

\* C2 amended: an epoch is kept exactly when its date is strictly after the
\* lower bound and strictly before the upper bound; a date equal to either
\* bound is dropped.
C2_BothExclusive ==
    pc \in AfterClip =>
      LET keep == {i \in 1..Len(output.dates) :
                     /\ output.dates[i] > date_range[1]
                     /\ output.dates[i] < date_range[2]}
      IN  Selected(dates_sat, output.dates, keep)

\* The clip met a date on each bound and a date inside, and kept the latter.
C2_Witness ==
    /\ pc = "compute_tide"
    /\ \E i \in 1..Len(output.dates) : output.dates[i] = date_range[1]
    /\ \E i \in 1..Len(output.dates) : output.dates[i] = date_range[2]
    /\ Len(dates_sat) = 1

\* C3: no transect is printed twice, the printed keys are the keys of
\* slope_est with the values stored there, and at the end of the script the
\* keys of slope_est are the keys of cross_distance.
C3_OneEstimatePerTransect ==
    /\ \A i, j \in 1..Len(printed) : printed[i][1] = printed[j][1] => i = j
    /\ {printed[i][1] : i \in 1..Len(printed)} = DOMAIN slope_est
    /\ \A i \in 1..Len(printed) : printed[i][2] = slope_est[printed[i][1]]
    /\ pc = "done" => DOMAIN slope_est = DOMAIN cross_distance

\* The script ended after estimating two transects.
C3_Witness ==
    /\ pc = "done"
    /\ Len(printed) = 2
    /\ DOMAIN cross_distance = {1, 2}

\* The candidate slopes of the configured range.
CandidateSlopes ==
    {range_slopes(slope_min, slope_max, delta_slope)[i] :
       i \in DOMAIN range_slopes(slope_min, slope_max, delta_slope)}

StageOrder == <<"load", "remove_S2", "remove_duplicates",
                "remove_inaccurate_georef", "compute_intersection",
                "reject_outliers", "clip_dates", "compute_tide",
                "find_tide_peak", "estimate", "done">>
StageNo(p) == CHOOSE i \in 1..Len(StageOrder) : StageOrder[i] = p

\* C5: the stages follow one another in the one fixed order, each entered
\* once from the stage before it, and freqs_max is set in settings_slope
\* before any slope is estimated.
C5_FixedStageOrder ==
    /\ [][pc' # pc => StageNo(pc') = StageNo(pc) + 1]_vars
    /\ [][key_idx' # key_idx =>
            pc = "estimate" /\ "freqs_max" \in DOMAIN settings_slope]_vars
    /\ [](DOMAIN slope_est # {} => "freqs_max" \in DOMAIN settings_slope)

\* A complete run that estimated a slope.
C5_Witness ==
    /\ pc = "done"
    /\ key_idx = 1
    /\ "freqs_max" \in DOMAIN settings_slope

\* C6: once an exception is raised nothing runs any more: the stage is not
\* run again, no later stage runs, and nothing more is stored or printed.
C6_FailureTerminates ==
    [][error = "raised" =>
         /\ error' = "raised"
         /\ pc' = pc
         /\ output' = output
         /\ cross_distance' = cross_distance
         /\ slope_est' = slope_est
         /\ printed' = printed]_vars

\* The estimator raised on the second of two transects.
C6_Witness ==
    /\ error = "raised"
    /\ pc = "estimate"
    /\ Len(printed) = 1
    /\ DOMAIN cross_distance = {1, 2}

\* C7: after the filter stage the dataset holds no 'S2' epoch, no two
\* observations of one date by one satellite and no epoch whose
\* georeferencing error exceeds 10; each filter step keeps only epochs that
\* were there before it.
C7_FilteredDataset ==
    /\ [](pc \in AfterFilter =>
            /\ \A i \in 1..Len(output.satname) : output.satname[i] # "S2"
            /\ \A i, j \in 1..Len(output.dates) :
                 (/\ output.dates[i] = output.dates[j]
                  /\ output.satname[i] = output.satname[j]) => i = j
            /\ \A i \in 1..Len(output.geoaccuracy) :
                 output.geoaccuracy[i] <= 10)
    /\ [][(pc = "remove_S2" \/ pc = "remove_duplicates"
              \/ pc = "remove_inaccurate_georef") =>
            (\A j \in 1..Len(output'.shorelines) :
               \E i \in 1..Len(output.shorelines) :
                 \A key \in DOMAIN output :
                   output'[key][j] = output[key][i])]_vars

\* Two loaded epochs were filtered out and the third was retained.
C7_Witness ==
    /\ pc = "compute_intersection"
    /\ output.shorelines = <<3>>

\* C9: the dates, tide and composite of the transect just estimated have one
\* length and hold the clipped epochs at which its cross-distance is a
\* value, in order; composite holds no nan; the loop changes neither
\* dates_sat, tide_sat nor any cross-distance series.
C9_NaNRemovalPerTransect ==
    /\ [](key_idx >= 1 =>
            LET valid == {i \in 1..Len(cross_distance[key_idx]) :
                            cross_distance[key_idx][i] # NaN}
            IN  /\ Len(dates) = Len(tide)
                /\ Len(tide) = Len(composite)
                /\ Selected(dates, dates_sat, valid)
                /\ Selected(tide, tide_sat, valid)
                /\ Selected(composite, cross_distance[key_idx], valid)
                /\ \A j \in 1..Len(composite) : composite[j] # NaN)
    /\ [][pc = "estimate" =>
            /\ dates_sat' = dates_sat
            /\ tide_sat' = tide_sat
            /\ cross_distance' = cross_distance]_vars

\* The first of two clipped epochs is missing on transect 1 and removed for
\* it, while transect 2 holds both.
C9_Witness ==
    /\ key_idx = 1
    /\ Len(dates_sat) = 2
    /\ DOMAIN cross_distance = {1, 2}
    /\ cross_distance[1][1] = NaN
    /\ cross_distance[1][2] # NaN
    /\ Len(composite) = 1
    /\ \A i \in 1..2 : cross_distance[2][i] # NaN

\* C10: after the clip and the tide stage dates_sat, tide_sat and every
\* cross-distance series have one length, and place n of each is the n-th
\* epoch of the filtered dataset whose date passed the test.
C10_AlignedAfterClip ==
    pc \in AfterTide =>
      LET keep == {i \in 1..Len(output.dates) :
                     /\ output.dates[i] > date_range[1]
                     /\ output.dates[i] < date_range[2]}
          place(i) == Cardinality({j \in keep : j <= i})
      IN  /\ Len(tide_sat) = Len(dates_sat)
          /\ \A k \in DOMAIN cross_distance :
               Len(cross_distance[k]) = Len(dates_sat)
          /\ Selected(dates_sat, output.dates, keep)
          /\ \A i \in keep : tide_sat[place(i)] = Tide(output.dates[i])
          /\ \A k \in DOMAIN cross_distance : \A i \in keep :
               cross_distance[k][place(i)] \in
                 {NaN, Intersect(output.shorelines[i], k)}

\* The first of three filtered epochs was clipped; the other two stand at
\* places 1 and 2 with their dates, tides and distances.
C10_Witness ==
    /\ pc = "find_tide_peak"
    /\ Len(output.dates) = 3
    /\ output.dates[1] = date_range[1]
    /\ Len(dates_sat) = 2
    /\ DOMAIN cross_distance = {1, 2}
    /\ cross_distance[2][2] = Intersect(output.shorelines[3], 2)
=============================================================================
